---- MODULE Spec2Model ----
(***************************************************************************)
(* Insider-trading ingestion pipeline: the deduplicating store             *)
(* (tickerDB.py), the record hash (tickerInfo.py) and the batch runner     *)
(* (main.py).                                                              *)
(*                                                                         *)
(* The store is PostgreSQL reached through psycopg2.  Every run of main()  *)
(* works on its own connection inside one transaction (READ COMMITTED):    *)
(* a statement sees the committed rows and the rows its own transaction    *)
(* wrote; a write that meets a row another open transaction inserted or    *)
(* updated waits until that transaction ends.  Rows carry xmin (the open   *)
(* transaction that created the version, or Committed) and xmax (the open  *)
(* transaction that replaced it, or NoTx).                                 *)
(***************************************************************************)
EXTENDS Integers, Sequences, FiniteSets, TLC

\* ------------------------------------------------------------------ bounds
\* The processes that run main(); each runs it once, on its own
\* connection, and its batch id (uuid4) is its own name.
Runs == {"b1", "b2"}
\* Longest feed page a run receives.
MaxFeed == 2
\* Longest price series / options chain handed to the store.
MaxSeries == 2
\* Store calls one client issues in StoreSpec.
MaxCalls == 2
\* Latest day (days counted from an epoch) a date of a record falls on in
\* WindowSpec.
MaxDay == 64
\* Failures the environment injects in one behaviour (feed, connection,
\* provider, statement failures).
MaxFaults == 1

\* ------------------------------------------------------------ feed records
\* A field value is None (Python None / SQL NULL) or a one-element
\* sequence holding a string.
None == <<>>
Str(s) == <<s>>

\* tickerInfo.__init__: the 15 fields of a feed record.
tickerInfo(symbol, transactionDate, disclosureDate, comment) ==
    [symbol |-> symbol, transactionDate |-> transactionDate,
     firstName |-> Str("N"), lastName |-> Str("P"), type |-> Str("Sale"),
     amount |-> Str("1K"), owner |-> None, assetType |-> Str("Stock"),
     disclosureDate |-> disclosureDate, office |-> Str("N P"),
     district |-> Str("CA11"), assetDescription |-> Str("d"),
     capitalGainsOver200USD |-> Str("False"), comment |-> comment,
     link |-> Str("l")]

\* The records the feed can deliver: two sightings of one trade that differ
\* in the comment only, another trade, and a trade without disclosure date.
RecA1 == tickerInfo(Str("AAPL"), Str("d1"), Str("d2"), Str("c1"))
RecA2 == tickerInfo(Str("AAPL"), Str("d1"), Str("d2"), Str("c2"))
RecB == tickerInfo(Str("MSFT"), Str("d1"), Str("d2"), Str("c1"))
RecC == tickerInfo(Str("TSLA"), Str("d1"), None, Str("c1"))
Records == {RecA1, RecA2, RecB, RecC}

\* Mutant: None is written as the empty string.
JsonValue_none_as_empty(v) == IF v = None THEN "\"\"" ELSE "\"" \o v[1] \o "\""

\* json.dumps of one value: None is null, a string is quoted.
JsonValue(v) == IF v = None THEN "null" ELSE "\"" \o v[1] \o "\""

\* Mutant: the comment is hashed as well.
HashString_with_comment(r) ==
    "{\"amount\": " \o JsonValue(r.amount)
    \o ", \"assetType\": " \o JsonValue(r.assetType)
    \o ", \"comment\": " \o JsonValue(r.comment)
    \o ", \"firstName\": " \o JsonValue(r.firstName)
    \o ", \"lastName\": " \o JsonValue(r.lastName)
    \o ", \"owner\": " \o JsonValue(r.owner)
    \o ", \"symbol\": " \o JsonValue(r.symbol)
    \o ", \"transactionDate\": " \o JsonValue(r.transactionDate)
    \o ", \"type\": " \o JsonValue(r.type) \o "}"

\* json.dumps(hash_dict, sort_keys=True): the 8 identity keys in sorted
\* order.
HashString(r) ==
    "{\"amount\": " \o JsonValue(r.amount)
    \o ", \"assetType\": " \o JsonValue(r.assetType)
    \o ", \"firstName\": " \o JsonValue(r.firstName)
    \o ", \"lastName\": " \o JsonValue(r.lastName)
    \o ", \"owner\": " \o JsonValue(r.owner)
    \o ", \"symbol\": " \o JsonValue(r.symbol)
    \o ", \"transactionDate\": " \o JsonValue(r.transactionDate)
    \o ", \"type\": " \o JsonValue(r.type) \o "}"

\* hashlib.sha256(...).hexdigest(), kept symbolic: the digest of a string
\* is a value determined by that string.
Sha256(s) == <<"sha256", s>>

record_hash(r) == Sha256(HashString(r))

Hashes == {record_hash(r) : r \in Records}

\* ------------------------------------------------------------------ store
Committed == "committed"
NoTx == "none"

VARIABLES
    tickers,    \* InsiderTradingRecords: set of row versions
    pricing,    \* InsiderTradingPricingRecords: set of rows
    options,    \* InsiderTradingOptionsRecords: set of rows
    errors,     \* ErrorRecords: set of rows
    logging,    \* LoggingInfo: set of rows
    now,        \* the server clock behind NOW()
    conn,       \* conn[r]: "none", "open" or "closed"
    txstart,    \* txstart[r]: NOW() of r's transaction
    pc,         \* pc[r]: where run r stands
    listData,   \* listData[r]: the feed page of run r
    idx,        \* idx[r]: position of the loop in listData[r]
    data,       \* data[r]: the record in hand (StoreSpec: the argument)
    priceData,  \* priceData[r]: data.priceData
    optionsData,\* optionsData[r]: data.optionsData
    is_new,     \* is_new[r]: what the last store insert returned
    metrics,    \* metrics[r]: the BatchMetrics of run r
    clock,      \* clock[r]: perf_counter / datetime.now of run r
    exc,        \* exc[r]: an exception is leaving the database block
    exit_code,  \* exit_code[r]: the process exit code, -1 while running
    faults,     \* failures injected so far
    hist        \* observations kept for the properties only

vars == <<tickers, pricing, options, errors, logging, now, conn, txstart, pc,
          listData, idx, data, priceData, optionsData, is_new, metrics,
          clock, exc, exit_code, faults, hist>>

tables == <<tickers, pricing, options, errors, logging>>

\* A row version is visible to r's statements when it was committed or
\* written by r, and r has not replaced it.
Visible(table, r) ==
    {row \in table : row.xmin \in {Committed, r} /\ row.xmax # r}

\* Rows another open transaction inserted and has not committed.
Foreign(table, r) ==
    {row \in table : row.xmin \notin {Committed, r}}

\* conn.commit(): r's versions become the committed ones, the versions r
\* replaced are gone.
Commit(table, r) ==
    {[row EXCEPT !.xmin = IF row.xmin = r THEN Committed ELSE row.xmin] :
        row \in {x \in table : x.xmax # r}}

\* Mutant: the versions r wrote are kept and made permanent.
Rollback_keeps(table, r) ==
    {[row EXCEPT !.xmin = IF row.xmin = r THEN Committed ELSE row.xmin] :
        row \in {x \in table : x.xmax # r}}

\* conn.rollback(): r's versions vanish, the versions r replaced are
\* current again.
Rollback(table, r) ==
    {[row EXCEPT !.xmax = IF row.xmax = r THEN NoTx ELSE row.xmax] :
        row \in {x \in table : x.xmin # r}}

\* ---------------------------------------------- InsiderTradingRecords
\* Mutant: the duplicate check compares the whole record, not its hash.
tickers_is_duplicate_by_record(r, d) ==
    \E row \in Visible(tickers, r) : row.rec = d

\* is_duplicate: SELECT ... WHERE record_hash = %s; rowcount > 0.
tickers_is_duplicate(r, d) ==
    \E row \in Visible(tickers, r) : row.record_hash = record_hash(d)

\* The INSERT waits while another open transaction holds an uncommitted
\* version of a row with the same record_hash (UNIQUE, createTable).
tickers_blocked(r, d) ==
    \E row \in Foreign(tickers, r) : row.record_hash = record_hash(d)

\* A freshly inserted row: the 15 record columns, batch_id, and the two
\* timestamps at their DEFAULT NOW().  The priceData/optionsData columns
\* are NULL in every insert main() makes and are left out.
NewTrade(r, d, batch_id) ==
    [record_hash |-> record_hash(d), rec |-> d, batch_id |-> batch_id,
     first_seen_at |-> txstart[r], last_seen_at |-> txstart[r],
     xmin |-> r, xmax |-> NoTx]

\* Mutant: the conflict branch rewrites the record columns as well.
ConflictUpdate_overwrite(r, row, batch_id) ==
    [row EXCEPT !.last_seen_at = txstart[r], !.batch_id = batch_id,
                !.rec = data[r], !.xmin = r, !.xmax = NoTx]

\* ON CONFLICT (record_hash) DO UPDATE SET last_seen_at = NOW(),
\* batch_id = EXCLUDED.batch_id: the new version of an existing row.
ConflictUpdate(r, row, batch_id) ==
    [row EXCEPT !.last_seen_at = txstart[r], !.batch_id = batch_id,
                !.xmin = r, !.xmax = NoTx]

\* INSERT ... ON CONFLICT (record_hash) DO UPDATE, the table afterwards.
tickers_upsert(r, d, batch_id) ==
    LET hit == {row \in Visible(tickers, r) :
                    row.record_hash = record_hash(d)}
    IN  IF hit = {}
        THEN tickers \cup {NewTrade(r, d, batch_id)}
        ELSE (tickers \ hit)
             \cup {[row EXCEPT !.xmax = r] :
                      row \in {x \in hit : x.xmin = Committed}}
             \cup {ConflictUpdate(r, row, batch_id) : row \in hit}

\* --------------------------------------- InsiderTradingPricingRecords
\* Mutant: the check looks the hash up in the ticker column.
pricing_get_duplicates_by_ticker(r, d) ==
    \E row \in Visible(pricing, r) : row.ticker = record_hash(d)

\* get_duplicates: SELECT ... WHERE record_hash = %s; rowcount > 0.
pricing_get_duplicates(r, d) ==
    \E row \in Visible(pricing, r) : row.record_hash = record_hash(d)

\* Mutant: the reference is not checked.
ForeignKeyOk_unchecked(r, d) == TRUE

\* record_hash REFERENCES InsiderTradingRecords(record_hash).
ForeignKeyOk(r, d) ==
    \E row \in Visible(tickers, r) : row.record_hash = record_hash(d)

\* The bulk insert waits on an uncommitted row of another transaction
\* with one of its (record_hash, date) pairs.
pricing_blocked(r, df, d) ==
    \E row \in Foreign(pricing, r) :
        /\ row.record_hash = record_hash(d)
        /\ \E i \in 1..Len(df) : df[i].date = row.date

\* Mutant: the bulk insert writes every row of the series, also for a
\* (record_hash, date) pair the table has.
pricing_executemany_all(r, df, d) ==
    pricing \cup
    {[ticker |-> d.symbol, record_hash |-> record_hash(d),
      date |-> df[i].date, close_price |-> df[i].close,
      xmin |-> r, xmax |-> NoTx] : i \in 1..Len(df)}

\* executemany(INSERT ... ON CONFLICT (record_hash, date) DO NOTHING):
\* the rows in order, a row skipped when its pair is already there.
pricing_executemany(r, df, d) ==
    pricing \cup
    {[ticker |-> d.symbol, record_hash |-> record_hash(d),
      date |-> df[i].date, close_price |-> df[i].close,
      xmin |-> r, xmax |-> NoTx] :
        i \in {k \in 1..Len(df) :
                 /\ ~\E row \in Visible(pricing, r) :
                        /\ row.record_hash = record_hash(d)
                        /\ row.date = df[k].date
                 /\ ~\E j \in 1..(k - 1) : df[j].date = df[k].date}}

\* --------------------------------------- InsiderTradingOptionsRecords
options_get_duplicates(r, d) ==
    \E row \in Visible(options, r) : row.record_hash = record_hash(d)

options_blocked(r, df, d) ==
    \E row \in Foreign(options, r) :
        /\ row.record_hash = record_hash(d)
        /\ \E i \in 1..Len(df) : df[i].optionSymbol = row.option_symbol

\* executemany(INSERT ... ON CONFLICT (record_hash, option_symbol)
\* DO NOTHING).
options_executemany(r, df, d) ==
    options \cup
    {[ticker |-> d.symbol, record_hash |-> record_hash(d),
      option_symbol |-> df[i].optionSymbol, strike |-> df[i].strike,
      xmin |-> r, xmax |-> NoTx] :
        i \in {k \in 1..Len(df) :
                 /\ ~\E row \in Visible(options, r) :
                        /\ row.record_hash = record_hash(d)
                        /\ row.option_symbol = df[k].optionSymbol
                 /\ ~\E j \in 1..(k - 1) :
                        df[j].optionSymbol = df[k].optionSymbol}}

\* ------------------------------------------------ ErrorRecords, logging
\* Mutant: the error row is committed as it is written.
log_error_commits(r, batch_id, error_type, raw_data) ==
    errors \cup
    {[id |-> <<r, Cardinality({e \in errors : e.id[1] = r}) + 1>>,
      batch_id |-> batch_id, error_type |-> error_type,
      raw_json |-> raw_data, xmin |-> Committed, xmax |-> NoTx]}

\* log_error: one more row, id SERIAL.
log_error(r, batch_id, error_type, raw_data) ==
    errors \cup
    {[id |-> <<r, Cardinality({e \in errors : e.id[1] = r}) + 1>>,
      batch_id |-> batch_id, error_type |-> error_type,
      raw_json |-> raw_data, xmin |-> r, xmax |-> NoTx]}


\* ------------------------------------------------------------ BatchMetrics
\* Duration of one timed operation, in ticks of the run's clock.
Elapsed == 1

\* The dataclass defaults; _start_time/_end_time None is -1.
BatchMetrics(batch_id) ==
    [batch_id |-> batch_id, start_time |-> -1, end_time |-> -1,
     total_records_processed |-> 0, records_inserted |-> 0,
     records_skipped |-> 0, pricing_records_inserted |-> 0,
     options_records_inserted |-> 0, error_count |-> 0,
     tickers_with_pricing |-> 0, tickers_with_options |-> 0,
     duplicated_trades |-> 0, db_operation_time_seconds |-> 0,
     api_call_time_seconds |-> 0, time_to_fetch_trades |-> 0,
     time_to_fetch_price |-> 0, time_to_fetch_options |-> 0,
     status |-> "running", exit_code |-> 0]

start(m, t) == [m EXCEPT !.start_time = t]

\* Mutant: complete leaves the exit code at its default.
complete_exit0(m, success, t) ==
    [m EXCEPT !.end_time = t,
              !.status = IF success THEN "success" ELSE "failed"]

\* Mutant: complete reports 'success' whatever it is given.
complete_success(m, success, t) ==
    [m EXCEPT !.end_time = t, !.status = "success",
              !.exit_code = IF success THEN 0 ELSE 1]

complete(m, success, t) ==
    [m EXCEPT !.end_time = t,
              !.status = IF success THEN "success" ELSE "failed",
              !.exit_code = IF success THEN 0 ELSE 1]

\* Mutant: an error is counted twice.
increment_error_twice(m) == [m EXCEPT !.error_count = @ + 2]

increment_error(m) == [m EXCEPT !.error_count = @ + 1]

\* Mutant: a record without price rows is not counted as processed.
add_ticker_processed_priced(m, inserted, skipped, had_pricing, had_options) ==
    [m EXCEPT !.total_records_processed = IF had_pricing THEN @ + 1 ELSE @,
              !.records_inserted = IF inserted THEN @ + 1 ELSE @,
              !.records_skipped = IF skipped THEN @ + 1 ELSE @,
              !.tickers_with_pricing = IF had_pricing THEN @ + 1 ELSE @,
              !.tickers_with_options = IF had_options THEN @ + 1 ELSE @]

add_ticker_processed(m, inserted, skipped, had_pricing, had_options) ==
    [m EXCEPT !.total_records_processed = @ + 1,
              !.records_inserted = IF inserted THEN @ + 1 ELSE @,
              !.records_skipped = IF skipped THEN @ + 1 ELSE @,
              !.tickers_with_pricing = IF had_pricing THEN @ + 1 ELSE @,
              !.tickers_with_options = IF had_options THEN @ + 1 ELSE @]

\* Mutant: a duplicate is counted as a processed record too.
add_duplicate_trade_processed(m) ==
    [m EXCEPT !.duplicated_trades = @ + 1, !.records_skipped = @ + 1,
              !.total_records_processed = @ + 1]

add_duplicate_trade(m) ==
    [m EXCEPT !.duplicated_trades = @ + 1, !.records_skipped = @ + 1]

\* time_operation: the code after the yield adds the elapsed time; an
\* exception thrown into the generator at the yield skips it.
time_operation(m, field_name, raised) ==
    IF raised THEN m ELSE [m EXCEPT ![field_name] = @ + Elapsed]

\* Mutant: the property takes the fallback value.
execution_time_seconds_fallback(m) == 0

execution_time_seconds(m) ==
    IF m.start_time # -1 /\ m.end_time # -1
    THEN m.end_time - m.start_time ELSE 0

\* log_batch: one more row holding the counters and buckets of the
\* metrics, started_at, ended_at and the computed execution time.
log_batch(r, batch_id, m) ==
    logging \cup
    {[id |-> <<r, Cardinality({l \in logging : l.id[1] = r}) + 1>>,
      batch_id |-> batch_id, metrics |-> m,
      started_at |-> m.start_time, ended_at |-> m.end_time,
      execution_time_seconds |-> execution_time_seconds(m),
      xmin |-> r, xmax |-> NoTx]}

\* ---------------------------------------------------------- environment
\* Feed pages: up to MaxFeed records.
Feeds ==
    {f \in {<<RecC>>, <<RecA1, RecA2>>, <<RecA2, RecB>>, <<RecB, RecA1>>,
            <<RecA1, RecB, RecC>>} : Len(f) <= MaxFeed}

\* What the price provider returns for a window: an empty frame, one day,
\* or two days with other closing prices.
Row(date, close) == [date |-> date, close |-> close]
ProviderSeries ==
    {s \in {<<>>, <<Row(1, 10), Row(2, 20)>>,
            <<Row(1, 10), Row(2, 20), Row(3, 30)>>} : Len(s) <= MaxSeries}

\* What data.priceData / data.optionsData can hold: None, a DataFrame, or
\* (getOptionsData) the path of the CSV file the chain was saved to.
PyNone == [kind |-> "None", rows |-> <<>>]
DataFrame(rows) == [kind |-> "DataFrame", rows |-> rows]
PathValue == [kind |-> "Path", rows |-> <<>>]

\* Mutant: only None counts as no data.
has_data_not_none(x) == x.kind # "None"

\* x is not None and not x.empty, for a DataFrame or None.
has_data(x) == x.kind # "None" /\ Len(x.rows) > 0

\* ------------------------------------------------------------------ Init
NoRecord == tickerInfo(None, None, None, None)

NoHist ==
    [ret |-> {}, overlap |-> FALSE, after |-> [r \in Runs |-> {}],
     existed |-> [r \in Runs |-> FALSE],
     call |-> [r \in Runs |-> [op |-> "none", had |-> FALSE]],
     pfail |-> [r \in Runs |-> 0], insfail |-> [r \in Runs |-> {}],
     fetches |-> [r \in Runs |-> 0], feedfail |-> [r \in Runs |-> FALSE],
     digest |-> [r \in Runs |-> <<>>],
     window |-> [r \in Runs |-> <<>>]]

\* Empty tables, nothing connected, no record in hand.
InitStore ==
    /\ tickers = {} /\ pricing = {} /\ options = {}
    /\ errors = {} /\ logging = {}
    /\ now = 0
    /\ conn = [r \in Runs |-> "none"]
    /\ txstart = [r \in Runs |-> 0]
    /\ listData = [r \in Runs |-> <<>>]
    /\ idx = [r \in Runs |-> 1]
    /\ data = [r \in Runs |-> NoRecord]
    /\ priceData = [r \in Runs |-> PyNone]
    /\ optionsData = [r \in Runs |-> PyNone]
    /\ is_new = [r \in Runs |-> FALSE]
    /\ metrics = [r \in Runs |-> BatchMetrics(r)]
    /\ clock = [r \in Runs |-> 0]
    /\ exc = [r \in Runs |-> FALSE]
    /\ exit_code = [r \in Runs |-> -1]
    /\ faults = 0
    /\ hist = NoHist

Init ==
    /\ InitStore
    /\ pc = [r \in Runs |-> "start"]

\* ------------------------------------------------------------- main()
\* Mutant: a failing feed fetch is swallowed and the run goes on with an
\* empty page.
Begin_swallow(r) ==
    /\ pc[r] = "start"
    /\ \/ /\ faults < MaxFaults /\ faults' = faults + 1
          /\ hist' = [hist EXCEPT !.feedfail[r] = TRUE]
          /\ listData' = [listData EXCEPT ![r] = <<>>]
       \/ /\ \E feed \in Feeds : listData' = [listData EXCEPT ![r] = feed]
          /\ UNCHANGED <<faults, hist>>
    /\ metrics' = [metrics EXCEPT ![r] = start(BatchMetrics(r), clock[r])]
    /\ pc' = [pc EXCEPT ![r] = "enter"]
    /\ clock' = [clock EXCEPT ![r] = @ + Elapsed]
    /\ UNCHANGED <<tables, now, conn, txstart, idx, data, priceData,
                   optionsData, is_new, exc, exit_code>>

\* main lines 41-56: the batch id, the metrics, the timed feed fetch.  A
\* failing fetch (request error, timeout, bad payload) exits with 1.
Begin(r) ==
    /\ pc[r] = "start"
    /\ \/ /\ faults < MaxFaults /\ faults' = faults + 1
          /\ metrics' = [metrics EXCEPT ![r] =
                time_operation(start(BatchMetrics(r), clock[r]),
                               "time_to_fetch_trades", TRUE)]
          /\ exit_code' = [exit_code EXCEPT ![r] = 1]
          /\ pc' = [pc EXCEPT ![r] = "done"]
          /\ hist' = [hist EXCEPT !.feedfail[r] = TRUE]
          /\ UNCHANGED listData
       \/ \E feed \in Feeds :
            /\ listData' = [listData EXCEPT ![r] = feed]
            /\ metrics' = [metrics EXCEPT ![r] =
                  time_operation(start(BatchMetrics(r), clock[r]),
                                 "time_to_fetch_trades", FALSE)]
            /\ pc' = [pc EXCEPT ![r] = "enter"]
            /\ UNCHANGED <<exit_code, faults, hist>>
    /\ clock' = [clock EXCEPT ![r] = @ + Elapsed]
    /\ UNCHANGED <<tables, now, conn, txstart, idx, data, priceData,
                   optionsData, is_new, exc>>

\* The runs whose connection is open.
Connected == {q \in Runs : conn[q] = "open" /\ pc[q] # "done"}

\* Database.__enter__: connect, open the cursor, create the tables.  An
\* exception here (connect, or a createTable after the connect) reaches
\* the handler at main line 128 without __exit__ having run.
Enter(r) ==
    /\ pc[r] = "enter"
    /\ \/ /\ conn' = [conn EXCEPT ![r] = "open"]
          /\ txstart' = [txstart EXCEPT ![r] = now]
          /\ now' = now + 1
          /\ pc' = [pc EXCEPT ![r] = "loop"]
          /\ hist' = [hist EXCEPT
                !.overlap = @ \/ Connected # {},
                !.after[r] = {q \in Runs : pc[q] = "done"
                                 /\ conn[q] = "closed" /\ ~exc[q]}]
          /\ UNCHANGED <<exit_code, faults>>
       \/ /\ faults < MaxFaults /\ faults' = faults + 1
          /\ \E c \in {"none", "open"} : conn' = [conn EXCEPT ![r] = c]
          /\ exit_code' = [exit_code EXCEPT ![r] = 1]
          /\ pc' = [pc EXCEPT ![r] = "done"]
          /\ UNCHANGED <<txstart, now, hist>>
    /\ UNCHANGED <<tables, listData, idx, data, priceData, optionsData,
                   is_new, metrics, clock, exc>>

\* What the properties remember of one insertTrade call.
Returned(r, inserted) ==
    [hist EXCEPT !.ret = @ \cup
        {[run |-> r, k |-> idx[r], hash |-> record_hash(listData[r][idx[r]]),
          inserted |-> inserted, existed |-> hist.existed[r]]}]

\* main lines 62-70 with tickers.insert lines 244-246: the next record,
\* the duplicate check; a duplicate is counted and the loop goes on.
TickersIsDuplicate(r) ==
    /\ pc[r] = "loop" /\ idx[r] <= Len(listData[r])
    /\ LET d == listData[r][idx[r]]
           existed == \E row \in tickers : row.record_hash = record_hash(d)
       IN  /\ data' = [data EXCEPT ![r] = d]
           /\ priceData' = [priceData EXCEPT ![r] = PyNone]
           /\ optionsData' = [optionsData EXCEPT ![r] = PyNone]
           /\ IF tickers_is_duplicate(r, d)
              THEN /\ is_new' = [is_new EXCEPT ![r] = FALSE]
                   /\ metrics' = [metrics EXCEPT ![r] = add_duplicate_trade(
                         time_operation(@, "db_operation_time_seconds", FALSE))]
                   /\ clock' = [clock EXCEPT ![r] = @ + Elapsed]
                   /\ idx' = [idx EXCEPT ![r] = @ + 1]
                   /\ hist' = [hist EXCEPT !.ret = @ \cup
                         {[run |-> r, k |-> idx[r], hash |-> record_hash(d),
                           inserted |-> FALSE, existed |-> existed]}]
                   /\ UNCHANGED pc
              ELSE /\ pc' = [pc EXCEPT ![r] = "tickers_insert"]
                   /\ hist' = [hist EXCEPT !.existed[r] = existed]
                   /\ UNCHANGED <<is_new, metrics, clock, idx>>
    /\ UNCHANGED <<faults, tables, now, conn, txstart, listData, exc, exit_code>>

\* tickers.insert lines 248-265: the INSERT ... ON CONFLICT, return True.
TickersInsert(r) ==
    /\ pc[r] = "tickers_insert"
    /\ ~tickers_blocked(r, data[r])
    /\ tickers' = tickers_upsert(r, data[r], r)
    /\ is_new' = [is_new EXCEPT ![r] = TRUE]
    /\ metrics' = [metrics EXCEPT ![r] =
          time_operation(@, "db_operation_time_seconds", FALSE)]
    /\ clock' = [clock EXCEPT ![r] = @ + Elapsed]
    /\ pc' = [pc EXCEPT ![r] = "price_fetch"]
    /\ hist' = Returned(r, TRUE)
    /\ UNCHANGED <<faults, pricing, options, errors, logging, now, conn, txstart,
                   listData, idx, data, priceData, optionsData, exc,
                   exit_code>>

\* Two INSERTs that wait for each other: the server ends one of them with
\* a deadlock error, which aborts that transaction.
DeadlockDetected(r) ==
    /\ pc[r] = "tickers_insert"
    /\ \E q \in Runs \ {r} :
         /\ pc[q] = "tickers_insert"
         /\ \E row \in tickers :
              row.xmin = q /\ row.record_hash = record_hash(data[r])
         /\ \E row \in tickers :
              row.xmin = r /\ row.record_hash = record_hash(data[q])
    /\ clock' = [clock EXCEPT ![r] = @ + Elapsed]
    /\ pc' = [pc EXCEPT ![r] = "except_tx"]
    /\ UNCHANGED <<faults, tables, now, conn, txstart, listData, idx, data,
                   priceData, optionsData, is_new, metrics, exc, exit_code,
                   hist>>

\* getPriceData lines 40-43, getOptionsData lines 101-104.
MissingField(d) ==
    d.symbol = None \/ d.disclosureDate = None \/ d.transactionDate = None

\* main lines 72-77 with getPriceData: a record without symbol or dates
\* raises; a failing download is caught inside getPriceData and leaves
\* priceData None; otherwise priceData is the frame downloaded.
GetPriceData(r) ==
    /\ pc[r] = "price_fetch"
    /\ clock' = [clock EXCEPT ![r] = @ + Elapsed]
    /\ IF MissingField(data[r])
       THEN /\ pc' = [pc EXCEPT ![r] = "except"]
            /\ UNCHANGED <<priceData, metrics, hist, faults>>
       ELSE /\ \E got \in {PyNone} \cup {DataFrame(x) : x \in ProviderSeries} :
                 /\ got = PyNone => faults < MaxFaults
                 /\ faults' = IF got = PyNone THEN faults + 1 ELSE faults
                 /\ priceData' = [priceData EXCEPT ![r] = got]
                 /\ hist' = [hist EXCEPT
                       !.fetches[r] = @ + 1,
                       !.pfail[r] = IF got = PyNone THEN @ + 1 ELSE @]
                 /\ pc' = [pc EXCEPT ![r] =
                       IF has_data(got) THEN "pricing_insert"
                                        ELSE "options_fetch"]
            /\ metrics' = [metrics EXCEPT ![r] =
                  time_operation(@, "time_to_fetch_price", FALSE)]
    /\ UNCHANGED <<tables, now, conn, txstart, listData, idx, data,
                   optionsData, is_new, exc, exit_code>>

\* main lines 78-80 with pricing.insert lines 368-370: rows exist for the
\* hash, insert returns False; main adds len(priceData) all the same.
PricingGetDuplicates(r) ==
    /\ pc[r] = "pricing_insert"
    /\ IF pricing_get_duplicates(r, data[r])
       THEN /\ metrics' = [metrics EXCEPT ![r] =
                  [time_operation(@, "db_operation_time_seconds", FALSE)
                     EXCEPT !.pricing_records_inserted =
                               @ + Len(priceData[r].rows)]]
            /\ clock' = [clock EXCEPT ![r] = @ + Elapsed]
            /\ pc' = [pc EXCEPT ![r] = "options_fetch"]
       ELSE /\ pc' = [pc EXCEPT ![r] = "pricing_executemany"]
            /\ UNCHANGED <<metrics, clock>>
    /\ UNCHANGED <<faults, tables, now, conn, txstart, listData, idx, data,
                   priceData, optionsData, is_new, exc, exit_code, hist>>

\* main lines 78-80 with pricing.insert lines 371-393: the bulk insert.
\* It raises before the statement is sent (building the rows, adapting
\* the values), or the server rejects it, which aborts the transaction.
PricingInsert(r) ==
    /\ pc[r] = "pricing_executemany"
    /\ clock' = [clock EXCEPT ![r] = @ + Elapsed]
    /\ \/ /\ ForeignKeyOk(r, data[r])
          /\ ~pricing_blocked(r, priceData[r].rows, data[r])
          /\ pricing' = pricing_executemany(r, priceData[r].rows, data[r])
          /\ metrics' = [metrics EXCEPT ![r] =
                [time_operation(@, "db_operation_time_seconds", FALSE)
                   EXCEPT !.pricing_records_inserted =
                             @ + Len(priceData[r].rows)]]
          /\ pc' = [pc EXCEPT ![r] = "options_fetch"]
          /\ UNCHANGED <<hist, faults>>
       \/ /\ faults < MaxFaults /\ faults' = faults + 1
          /\ pc' = [pc EXCEPT ![r] = "except"]
          /\ hist' = [hist EXCEPT
                !.insfail[r] = @ \cup {record_hash(data[r])}]
          /\ UNCHANGED <<pricing, metrics>>
       \/ /\ faults < MaxFaults /\ faults' = faults + 1
          /\ pc' = [pc EXCEPT ![r] = "except_tx"]
          /\ hist' = [hist EXCEPT
                !.insfail[r] = @ \cup {record_hash(data[r])}]
          /\ UNCHANGED <<pricing, metrics>>
    /\ UNCHANGED <<tickers, options, errors, logging, now, conn, txstart,
                   listData, idx, data, priceData, optionsData, is_new, exc,
                   exit_code>>

\* main lines 82-97 with getOptionsData: the request raises; or saving
\* the chain fails (error status, no data), which getOptionsData catches,
\* leaving optionsData None; or the chain is saved and optionsData is the
\* path of the CSV file, which has no attribute "empty" (main line 85).
GetOptionsData(r) ==
    /\ pc[r] = "options_fetch"
    /\ clock' = [clock EXCEPT ![r] = @ + Elapsed]
    /\ hist' = [hist EXCEPT !.fetches[r] = @ + 1]
    /\ \/ /\ faults < MaxFaults /\ faults' = faults + 1
          /\ pc' = [pc EXCEPT ![r] = "except"]
          /\ UNCHANGED <<optionsData, metrics, idx>>
       \/ /\ ~MissingField(data[r])
          /\ UNCHANGED faults
          /\ optionsData' = [optionsData EXCEPT ![r] = PyNone]
          /\ metrics' = [metrics EXCEPT ![r] = add_ticker_processed(
                time_operation(@, "time_to_fetch_options", FALSE),
                is_new[r], FALSE, has_data(priceData[r]), FALSE)]
          /\ idx' = [idx EXCEPT ![r] = @ + 1]
          /\ pc' = [pc EXCEPT ![r] = "loop"]
       \/ /\ ~MissingField(data[r])
          /\ UNCHANGED faults
          /\ optionsData' = [optionsData EXCEPT ![r] = PathValue]
          /\ metrics' = [metrics EXCEPT ![r] =
                time_operation(@, "time_to_fetch_options", FALSE)]
          /\ pc' = [pc EXCEPT ![r] = "except"]
          /\ UNCHANGED idx
    /\ UNCHANGED <<tables, now, conn, txstart, listData, data, priceData,
                   is_new, exc, exit_code>>

\* main lines 99-107: count the error and log it.  A log_error that raises
\* leaves the loop and the database block; in an aborted transaction every
\* statement raises.
Except(r) ==
    /\ pc[r] \in {"except", "except_tx"}
    /\ metrics' = [metrics EXCEPT ![r] = increment_error(@)]
    /\ \/ /\ pc[r] = "except"
          /\ errors' = log_error(r, r, data[r].symbol, data[r].symbol)
          /\ idx' = [idx EXCEPT ![r] = @ + 1]
          /\ pc' = [pc EXCEPT ![r] = "loop"]
          /\ UNCHANGED <<exc, faults>>
       \/ /\ pc[r] = "except" => faults < MaxFaults
          /\ faults' = IF pc[r] = "except" THEN faults + 1 ELSE faults
          /\ exc' = [exc EXCEPT ![r] = TRUE]
          /\ pc' = [pc EXCEPT ![r] = "exit"]
          /\ UNCHANGED <<errors, idx>>
    /\ UNCHANGED <<tickers, pricing, options, logging, now, conn, txstart,
                   listData, data, priceData, optionsData, is_new, clock,
                   exit_code, hist>>

\* main lines 108-126: complete the metrics, derive the api time, persist
\* the LoggingInfo row, print the summary; a log_batch that raises leaves
\* the database block.
Summary(r) ==
    /\ pc[r] = "loop" /\ idx[r] > Len(listData[r])
    /\ LET m == complete(metrics[r], metrics[r].error_count = 0, clock[r])
           done == [m EXCEPT !.api_call_time_seconds =
                       m.time_to_fetch_trades + m.time_to_fetch_price
                       + m.time_to_fetch_options]
       IN  /\ metrics' = [metrics EXCEPT ![r] = done]
           /\ \/ /\ logging' = log_batch(r, r, done)
                 /\ UNCHANGED <<exc, faults>>
              \/ /\ faults < MaxFaults /\ faults' = faults + 1
                 /\ exc' = [exc EXCEPT ![r] = TRUE]
                 /\ UNCHANGED logging
    /\ pc' = [pc EXCEPT ![r] = "exit"]
    /\ UNCHANGED <<tickers, pricing, options, errors, now, conn, txstart,
                   listData, idx, data, priceData, optionsData, is_new,
                   clock, exit_code, hist>>

\* Mutant: the process exits with metrics.exit_code on every path.
Exit_metrics_code(r) ==
    /\ pc[r] = "exit"
    /\ IF exc[r]
       THEN /\ tickers' = Rollback(tickers, r)
            /\ pricing' = Rollback(pricing, r)
            /\ options' = Rollback(options, r)
            /\ errors' = Rollback(errors, r)
            /\ logging' = Rollback(logging, r)
       ELSE /\ tickers' = Commit(tickers, r)
            /\ pricing' = Commit(pricing, r)
            /\ options' = Commit(options, r)
            /\ errors' = Commit(errors, r)
            /\ logging' = Commit(logging, r)
    /\ exit_code' = [exit_code EXCEPT ![r] = metrics[r].exit_code]
    /\ conn' = [conn EXCEPT ![r] = "closed"]
    /\ pc' = [pc EXCEPT ![r] = "done"]
    /\ UNCHANGED <<faults, now, txstart, listData, idx, data, priceData,
                   optionsData, is_new, metrics, clock, exc, hist>>

\* Database.__exit__ and main lines 127-130: commit without an exception,
\* roll back with one, close; exit with metrics.exit_code, or 1 from the
\* handler of the exception.
Exit(r) ==
    /\ pc[r] = "exit"
    /\ IF exc[r]
       THEN /\ tickers' = Rollback(tickers, r)
            /\ pricing' = Rollback(pricing, r)
            /\ options' = Rollback(options, r)
            /\ errors' = Rollback(errors, r)
            /\ logging' = Rollback(logging, r)
            /\ exit_code' = [exit_code EXCEPT ![r] = 1]
       ELSE /\ tickers' = Commit(tickers, r)
            /\ pricing' = Commit(pricing, r)
            /\ options' = Commit(options, r)
            /\ errors' = Commit(errors, r)
            /\ logging' = Commit(logging, r)
            /\ exit_code' = [exit_code EXCEPT ![r] = metrics[r].exit_code]
    /\ conn' = [conn EXCEPT ![r] = "closed"]
    /\ pc' = [pc EXCEPT ![r] = "done"]
    /\ UNCHANGED <<faults, now, txstart, listData, idx, data, priceData,
                   optionsData, is_new, metrics, clock, exc, hist>>

Next ==
    \E r \in Runs :
        \/ Begin(r) \/ Enter(r)
        \/ TickersIsDuplicate(r) \/ TickersInsert(r) \/ DeadlockDetected(r)
        \/ GetPriceData(r) \/ PricingGetDuplicates(r) \/ PricingInsert(r)
        \/ GetOptionsData(r) \/ Except(r) \/ Summary(r) \/ Exit(r)

Spec == Init /\ [][Next]_vars

\* ------------------------------------------------- the store, called directly
\* A client holds a Database block open and calls the repositories on it:
\* up to MaxCalls calls, then the block ends, normally or by an exception.
StoreRecords == {RecA1, RecA2}

\* Frames handed to pricing.insert / options.insert: two price series that
\* share a date with other prices, two chains that share a contract.
StoreSeries ==
    {s \in {<<Row(1, 10), Row(2, 20)>>, <<Row(2, 25), Row(3, 30)>>,
            <<Row(1, 10), Row(2, 20), Row(4, 40)>>} : Len(s) <= MaxSeries}

Quote(optionSymbol, strike) ==
    [optionSymbol |-> optionSymbol, strike |-> strike]
StoreChains ==
    {s \in {<<Quote("o1", 10), Quote("o2", 20)>>,
            <<Quote("o2", 25), Quote("o3", 30)>>,
            <<Quote("o1", 10), Quote("o2", 20), Quote("o4", 40)>>} :
        Len(s) <= MaxSeries}

StoreInit ==
    /\ InitStore
    /\ pc = [r \in Runs |-> "enter"]

CallStarts(r) == pc[r] = "loop" /\ idx[r] <= MaxCalls

\* db.tickers.insert(d, batch_id), lines 244-246.
StoreTickersIsDuplicate(r) ==
    /\ CallStarts(r)
    /\ \E d \in StoreRecords :
            /\ data' = [data EXCEPT ![r] = d]
            /\ IF tickers_is_duplicate(r, d)
               THEN /\ is_new' = [is_new EXCEPT ![r] = FALSE]
                    /\ idx' = [idx EXCEPT ![r] = @ + 1]
                    /\ hist' = [hist EXCEPT
                          !.call[r] = [op |-> "tickers", had |-> TRUE]]
                    /\ UNCHANGED pc
               ELSE /\ pc' = [pc EXCEPT ![r] = "tickers_insert"]
                    /\ hist' = [hist EXCEPT
                          !.call[r] = [op |-> "tickers", had |-> FALSE]]
                    /\ UNCHANGED <<is_new, idx>>
    /\ UNCHANGED <<tables, now, conn, txstart, listData, priceData,
                   optionsData, metrics, clock, exc, exit_code, faults>>

\* db.tickers.insert(d, batch_id), lines 248-265.
StoreTickersInsert(r) ==
    /\ pc[r] = "tickers_insert"
    /\ ~tickers_blocked(r, data[r])
    /\ tickers' = tickers_upsert(r, data[r], r)
    /\ is_new' = [is_new EXCEPT ![r] = TRUE]
    /\ idx' = [idx EXCEPT ![r] = @ + 1]
    /\ pc' = [pc EXCEPT ![r] = "loop"]
    /\ UNCHANGED <<pricing, options, errors, logging, now, conn, txstart,
                   listData, data, priceData, optionsData, metrics, clock,
                   exc, exit_code, faults, hist>>

\* db.pricing.insert(df, d), lines 368-370.
StorePricingGetDuplicates(r) ==
    /\ CallStarts(r)
    /\ \E d \in {RecA1}, df \in StoreSeries :
        /\ data' = [data EXCEPT ![r] = d]
        /\ priceData' = [priceData EXCEPT ![r] = DataFrame(df)]
        /\ hist' = [hist EXCEPT !.call[r] =
              [op |-> "pricing",
               had |-> \E row \in Visible(pricing, r) :
                          row.record_hash = record_hash(d)]]
        /\ IF pricing_get_duplicates(r, d)
           THEN /\ is_new' = [is_new EXCEPT ![r] = FALSE]
                /\ idx' = [idx EXCEPT ![r] = @ + 1]
                /\ UNCHANGED pc
           ELSE /\ pc' = [pc EXCEPT ![r] = "pricing_executemany"]
                /\ UNCHANGED <<is_new, idx>>
    /\ UNCHANGED <<tables, now, conn, txstart, listData, optionsData,
                   metrics, clock, exc, exit_code, faults>>

\* db.pricing.insert(df, d), lines 371-393; a foreign-key violation
\* raises out of the block.
StorePricingInsert(r) ==
    /\ pc[r] = "pricing_executemany"
    /\ IF ForeignKeyOk(r, data[r])
       THEN /\ ~pricing_blocked(r, priceData[r].rows, data[r])
            /\ pricing' = pricing_executemany(r, priceData[r].rows, data[r])
            /\ is_new' = [is_new EXCEPT ![r] = TRUE]
            /\ idx' = [idx EXCEPT ![r] = @ + 1]
            /\ pc' = [pc EXCEPT ![r] = "loop"]
            /\ UNCHANGED exc
       ELSE /\ exc' = [exc EXCEPT ![r] = TRUE]
            /\ pc' = [pc EXCEPT ![r] = "exit"]
            /\ UNCHANGED <<pricing, is_new, idx>>
    /\ UNCHANGED <<tickers, options, errors, logging, now, conn, txstart,
                   listData, data, priceData, optionsData, metrics, clock,
                   exit_code, faults, hist>>

\* db.options.insert(df, d), lines 474-476.
StoreOptionsGetDuplicates(r) ==
    /\ CallStarts(r)
    /\ \E d \in {RecA1}, df \in StoreChains :
        /\ data' = [data EXCEPT ![r] = d]
        /\ optionsData' = [optionsData EXCEPT ![r] = DataFrame(df)]
        /\ hist' = [hist EXCEPT !.call[r] =
              [op |-> "options",
               had |-> \E row \in Visible(options, r) :
                          row.record_hash = record_hash(d)]]
        /\ IF options_get_duplicates(r, d)
           THEN /\ is_new' = [is_new EXCEPT ![r] = FALSE]
                /\ idx' = [idx EXCEPT ![r] = @ + 1]
                /\ UNCHANGED pc
           ELSE /\ pc' = [pc EXCEPT ![r] = "options_executemany"]
                /\ UNCHANGED <<is_new, idx>>
    /\ UNCHANGED <<tables, now, conn, txstart, listData, priceData,
                   metrics, clock, exc, exit_code, faults>>

\* db.options.insert(df, d), lines 477-523.
StoreOptionsInsert(r) ==
    /\ pc[r] = "options_executemany"
    /\ IF ForeignKeyOk(r, data[r])
       THEN /\ ~options_blocked(r, optionsData[r].rows, data[r])
            /\ options' = options_executemany(r, optionsData[r].rows, data[r])
            /\ is_new' = [is_new EXCEPT ![r] = TRUE]
            /\ idx' = [idx EXCEPT ![r] = @ + 1]
            /\ pc' = [pc EXCEPT ![r] = "loop"]
            /\ UNCHANGED exc
       ELSE /\ exc' = [exc EXCEPT ![r] = TRUE]
            /\ pc' = [pc EXCEPT ![r] = "exit"]
            /\ UNCHANGED <<options, is_new, idx>>
    /\ UNCHANGED <<tickers, pricing, errors, logging, now, conn, txstart,
                   listData, data, priceData, optionsData, metrics, clock,
                   exit_code, faults, hist>>

\* The block ends: without an exception, or with one raised by the client.
StoreLeave(r) ==
    /\ pc[r] = "loop"
    /\ \E raised \in BOOLEAN : exc' = [exc EXCEPT ![r] = raised]
    /\ pc' = [pc EXCEPT ![r] = "exit"]
    /\ UNCHANGED <<tables, now, conn, txstart, listData, idx, data,
                   priceData, optionsData, is_new, metrics, clock,
                   exit_code, faults, hist>>

StoreNext ==
    \E r \in Runs :
        \/ Enter(r)
        \/ StoreTickersIsDuplicate(r) \/ StoreTickersInsert(r)
        \/ StorePricingGetDuplicates(r) \/ StorePricingInsert(r)
        \/ StoreOptionsGetDuplicates(r) \/ StoreOptionsInsert(r)
        \/ StoreLeave(r) \/ Exit(r)

StoreSpec == StoreInit /\ [][StoreNext]_vars

\* ------------------------------------------------- the record hash, read
\* A tickerInfo is built from a feed object, its record_hash is read, the
\* enrichment is fetched into the object, and record_hash is read again.
HashRecords ==
    {[tickerInfo(symbol, Str("d1"), Str("d2"), comment)
        EXCEPT !.owner = owner, !.link = link] :
        symbol \in {Str("AAPL"), Str("MSFT")},
        owner \in {None, Str(""), Str("null"), Str("Self")},
        comment \in {None, Str("c1")}, link \in {Str("l1"), Str("l2")}}

HashInit ==
    /\ InitStore
    /\ pc = [r \in Runs |-> "hash_new"]

\* tickerInfo(data): the object built from one feed object.
HashConstruct(r) ==
    /\ pc[r] = "hash_new"
    /\ \E d \in HashRecords : data' = [data EXCEPT ![r] = d]
    /\ pc' = [pc EXCEPT ![r] = "hash_first"]
    /\ UNCHANGED <<tables, now, conn, txstart, listData, idx, priceData,
                   optionsData, is_new, metrics, clock, exc, exit_code,
                   faults, hist>>

\* The object as record_hash sees it: the 15 fields and the two
\* enrichment attributes.
HashObject(r) ==
    data[r] @@ [priceData |-> priceData[r], optionsData |-> optionsData[r]]

\* data.record_hash, read before and after the enrichment.
HashRead(r) ==
    /\ pc[r] \in {"hash_first", "hash_second"}
    /\ hist' = [hist EXCEPT
          !.digest[r] = Append(@, record_hash(HashObject(r)))]
    /\ pc' = [pc EXCEPT ![r] =
          IF pc[r] = "hash_first" THEN "hash_enrich" ELSE "done"]
    /\ UNCHANGED <<tables, now, conn, txstart, listData, idx, data,
                   priceData, optionsData, is_new, metrics, clock, exc,
                   exit_code, faults>>

\* getPriceData and getOptionsData set priceData and optionsData on the
\* object.
HashEnrich(r) ==
    /\ pc[r] = "hash_enrich"
    /\ \E got \in {PyNone} \cup {DataFrame(x) : x \in ProviderSeries} :
          priceData' = [priceData EXCEPT ![r] = got]
    /\ \E got \in {PyNone, PathValue} :
          optionsData' = [optionsData EXCEPT ![r] = got]
    /\ pc' = [pc EXCEPT ![r] = "hash_second"]
    /\ UNCHANGED <<tables, now, conn, txstart, listData, idx, data, is_new,
                   metrics, clock, exc, exit_code, faults, hist>>

HashNext ==
    \E r \in Runs : HashConstruct(r) \/ HashRead(r) \/ HashEnrich(r)

HashSpec == HashInit /\ [][HashNext]_vars

\* ------------------------------------------- the price window, computed
\* pd.Timedelta(days=60), lines 45 and 50.
Days60 == 60

\* Mutant: the start is never moved.
price_window_fixed(disclosureDate, transactionDate) ==
    [start |-> disclosureDate - Days60, end |-> transactionDate,
     extended |-> FALSE]

\* getPriceData lines 45-55: the start and end handed to yf.download, and
\* whether the range was extended.  Dates are day numbers.
price_window(disclosureDate, transactionDate) ==
    LET start_dt == disclosureDate - Days60
        transaction_dt == transactionDate
    IN  IF start_dt > transaction_dt
        THEN [start |-> transaction_dt - Days60, end |-> transaction_dt,
              extended |-> TRUE]
        ELSE [start |-> start_dt, end |-> transaction_dt,
              extended |-> FALSE]

\* The dates a record can carry here: a day, or nothing.
WindowDates == {Str(n) : n \in 0..MaxDay} \cup {None}

WindowInit ==
    /\ InitStore
    /\ pc = [r \in Runs |-> "window_new"]

\* tickerInfo(data): an object with its two dates.
WindowConstruct(r) ==
    /\ pc[r] = "window_new"
    /\ \E d \in WindowDates, t \in WindowDates \ {None} :
          data' = [data EXCEPT ![r] = tickerInfo(Str("AAPL"), t, d, None)]
    /\ pc' = [pc EXCEPT ![r] = "window_fetch"]
    /\ UNCHANGED <<tables, now, conn, txstart, listData, idx, priceData,
                   optionsData, is_new, metrics, clock, exc, exit_code,
                   faults, hist>>

\* data.getPriceData(): raises for a missing date, else downloads the
\* window; a failing download leaves priceData None.
WindowGetPriceData(r) ==
    /\ pc[r] = "window_fetch"
    /\ IF MissingField(data[r])
       THEN /\ pc' = [pc EXCEPT ![r] = "window_raised"]
            /\ UNCHANGED <<priceData, hist>>
       ELSE /\ hist' = [hist EXCEPT !.window[r] =
                  <<price_window(data[r].disclosureDate[1],
                                 data[r].transactionDate[1])>>]
            /\ \E got \in {PyNone} \cup {DataFrame(x) : x \in ProviderSeries} :
                  priceData' = [priceData EXCEPT ![r] = got]
            /\ pc' = [pc EXCEPT ![r] = "done"]
    /\ UNCHANGED <<tables, now, conn, txstart, listData, idx, data,
                   optionsData, is_new, metrics, clock, exc, exit_code,
                   faults>>

\* One object is looked at.
WindowNext == \E r \in {"b1"} : WindowConstruct(r) \/ WindowGetPriceData(r)

WindowSpec == WindowInit /\ [][WindowNext]_vars

\* ------------------------------------------------------------ properties
RowsOf(table, h) == {row \in table : row.record_hash = h}

\* The insertTrade calls of run r that returned inserted=true.
NewIn(r) == {e \in hist.ret : e.run = r /\ e.inserted}

\* C1: the trades table holds at most one row per hash (one committed row,
\* and one row in the view of every connection); and when the batch runs
\* follow one another, a call returns inserted=true exactly when no row
\* with that hash was in the table, so true for the first sighting and
\* false for every later one.
C1Theorem ==
    /\ \A h \in Hashes :
         /\ Cardinality({row \in RowsOf(tickers, h) :
                            row.xmin = Committed}) <= 1
         /\ \A r \in Runs :
              Cardinality(RowsOf(Visible(tickers, r), h)) <= 1
    /\ ~hist.overlap => \A e \in hist.ret : e.inserted = ~e.existed

\* Two batches one after the other; the first inserts a trade and finds
\* its second sighting, which differs in the comment only, a duplicate;
\* the later batch finds it a duplicate too.
C1Witness ==
    /\ ~hist.overlap
    /\ \E e1, e2, e3 \in hist.ret :
         /\ e1.hash = e2.hash /\ e1.hash = e3.hash
         /\ e1.inserted /\ ~e2.inserted /\ ~e3.inserted
         /\ e2.run = e1.run /\ e3.run # e1.run
         /\ listData[e1.run][e1.k].comment # listData[e2.run][e2.k].comment

\* C2: after insertTrade returned inserted=false for a hash, the row of
\* that hash carries the calling batch's id and the time of this sighting.
C2Claim ==
    \A e \in hist.ret :
        (~e.inserted /\ pc[e.run] # "done") =>
            \E row \in RowsOf(Visible(tickers, e.run), e.hash) :
                /\ row.batch_id = e.run
                /\ row.last_seen_at = txstart[e.run]

\* C3: a step never changes the record columns or first_seen_at of a row:
\* every version of a hash after the step agrees in them with every
\* version of that hash before the step.
C3Theorem ==
    [][\A old \in tickers : \A new \in tickers' :
          old.record_hash = new.record_hash =>
              new.rec = old.rec /\ new.first_seen_at = old.first_seen_at]_vars

\* The ON CONFLICT branch has replaced a committed row for a sighting with
\* another comment.
C3Witness ==
    \E r \in Runs : \E row \in tickers :
        /\ row.xmin = r /\ row.batch_id = r
        /\ row.record_hash = record_hash(data[r])
        /\ row.last_seen_at # row.first_seen_at
        /\ row.rec.comment # data[r].comment
        /\ \E old \in tickers : old.xmax = r /\ old.batch_id # r

C5Theorem ==
    \A r \in Runs : \A q \in hist.after[r] :
        listData[q] = listData[r] =>
            /\ \A t \in {tickers, pricing, options} :
                 \A row \in t : row.xmin # r /\ row.xmax # r
            /\ hist.fetches[r] = 0
            /\ pc[r] \in {"exit", "done"} =>
                 /\ metrics[r].duplicated_trades = Len(listData[r])
                 /\ metrics[r].error_count = 0
                 /\ ~exc[r] => \E l \in logging : l.batch_id = r

C5Witness ==
    \E r \in Runs : \E q \in hist.after[r] :
        /\ listData[q] = listData[r] /\ Len(listData[r]) = MaxFeed
        /\ pc[r] = "done" /\ exit_code[r] = 0
        /\ \E row \in pricing : row.xmin = Committed
        /\ metrics[r].duplicated_trades = MaxFeed

\* The call of r that has just returned.
Returns(r) == idx'[r] = idx[r] + 1

\* C6: a pricing.insert (options.insert) call made while the caller sees
\* rows of that hash in the table returns False and leaves the table as
\* it was, whatever frame it is given.
C6Theorem ==
    [][\A r \in Runs :
          (Returns(r) /\ hist'.call[r].had) =>
              /\ hist'.call[r].op = "pricing" =>
                    ~is_new'[r] /\ pricing' = pricing
              /\ hist'.call[r].op = "options" =>
                    ~is_new'[r] /\ options' = options]_vars

\* A second pricing.insert for a hash, with a series other than the stored
\* one, has returned False.
C6Witness ==
    \E r \in Runs :
        /\ pc[r] = "loop" /\ hist.call[r].op = "pricing" /\ hist.call[r].had
        /\ ~is_new[r] /\ Len(priceData[r].rows) > 0
        /\ \E i \in 1..Len(priceData[r].rows) :
             ~\E row \in RowsOf(pricing, record_hash(data[r])) :
                 /\ row.date = priceData[r].rows[i].date
                 /\ row.close_price = priceData[r].rows[i].close

\* The (hash, date) pairs of a set of price rows.
DatesOf(rows) == {row.date : row \in rows}

ErrorsOf(r) == {e \in errors : e.batch_id = r}

\* C8: a batch of N new records in which the price fetch of exactly one
\* record failed at the provider, and nothing else failed, processes the
\* other N-1 records, writes one error row, counts one error and ends
\* 'failed' with exit code 1.
C8Claim ==
    \A r \in Runs :
        (/\ pc[r] = "done" /\ Len(listData[r]) > 0
         /\ Cardinality(NewIn(r)) = Len(listData[r])
         /\ \A i \in 1..Len(listData[r]) : ~MissingField(listData[r][i])
         /\ hist.pfail[r] = 1 /\ faults = 1)
            => /\ metrics[r].total_records_processed = Len(listData[r]) - 1
               /\ Cardinality(ErrorsOf(r)) = 1
               /\ metrics[r].error_count = 1
               /\ metrics[r].status = "failed"
               /\ exit_code[r] = 1

\* C9: when the price insertion of a record failed after its trade row was
\* inserted, the trade row is in the store when the process has exited and
\* the loop has gone through every record of the feed.
C9Claim ==
    \A r \in Runs :
        pc[r] = "done" =>
            \A h \in hist.insfail[r] :
                /\ \E row \in RowsOf(tickers, h) : row.xmin = Committed
                /\ idx[r] > Len(listData[r])

\* C10: a terminated run has exit code 0 exactly when it got through the
\* summary with no error counted, and exit code 1 otherwise.
C10Theorem ==
    \A r \in Runs :
        pc[r] = "done" =>
            /\ exit_code[r] \in {0, 1}
            /\ exit_code[r] = 0 <=>
                 /\ idx[r] > Len(listData[r])
                 /\ metrics[r].status # "running"
                 /\ \E l \in logging : l.batch_id = r /\ l.xmin = Committed
                 /\ metrics[r].error_count = 0

\* One run has ended with 0 after processing a record, the other with 1
\* after a counted error.
C10Witness ==
    \E r, q \in Runs :
        /\ pc[r] = "done" /\ exit_code[r] = 0
        /\ metrics[r].total_records_processed > 0
        /\ pc[q] = "done" /\ exit_code[q] = 1
        /\ metrics[q].error_count > 0 /\ metrics[q].status = "failed"

\* Every row version run r wrote or replaced and has not committed, and
\* every trade, error or log row that carries r's batch id.
WrittenBy(r) ==
    {row \in tickers \cup pricing \cup options \cup errors \cup logging :
        row.xmin = r \/ row.xmax = r}
    \cup {row \in tickers \cup errors \cup logging : row.batch_id = r}

\* C11: a run whose feed fetch failed has exited with code 1 without any
\* per-record work: it never opened a database connection, fetched no
\* enrichment, and no trade, price, option, error or batch-metrics row is
\* its own.
C11Theorem ==
    \A r \in Runs :
        hist.feedfail[r] =>
            /\ pc[r] = "done" /\ exit_code[r] = 1
            /\ conn[r] = "none"
            /\ idx[r] = 1 /\ hist.fetches[r] = 0
            /\ WrittenBy(r) = {}

\* One run failed at the feed while the other run has committed a batch.
C11Witness ==
    \E r, q \in Runs :
        /\ hist.feedfail[r] /\ pc[r] = "done"
        /\ pc[q] = "done" /\ exit_code[q] = 0
        /\ \E row \in tickers : row.batch_id = q /\ row.xmin = Committed

\* The committed batch-metrics rows of run r.
LoggedBy(r) == {l \in logging : l.batch_id = r /\ l.xmin = Committed}

\* C12: a run whose feed fetch succeeded and whose only failure was a
\* price insertion inside the loop body has, once terminated, persisted
\* its batch-metrics row.
C12Claim ==
    \A r \in Runs :
        (/\ pc[r] = "done" /\ ~hist.feedfail[r]
         /\ hist.insfail[r] # {})
            => LoggedBy(r) # {}

\* C13: every persisted batch-metrics row has status 'success' when its
\* error_count is 0 and 'failed' otherwise, never 'running', and exit_code
\* 0 exactly when error_count is 0.
C13Theorem ==
    \A l \in logging :
        /\ l.metrics.status \in {"success", "failed"}
        /\ l.metrics.status = "success" <=> l.metrics.error_count = 0
        /\ l.metrics.exit_code \in {0, 1}
        /\ l.metrics.exit_code = 0 <=> l.metrics.error_count = 0

\* A committed row of a batch with a counted error next to a committed
\* row of a batch without one.
C13Witness ==
    \E l, k \in logging :
        /\ l.xmin = Committed /\ l.metrics.error_count > 0
        /\ l.metrics.status = "failed"
        /\ k.xmin = Committed /\ k.metrics.error_count = 0
        /\ k.metrics.total_records_processed > 0

\* C14: in every persisted batch-metrics row api_call_time_seconds is the
\* sum of the three fetch buckets and execution_time_seconds is ended_at
\* minus started_at.
C14Theorem ==
    \A l \in logging :
        /\ l.metrics.api_call_time_seconds =
              l.metrics.time_to_fetch_trades + l.metrics.time_to_fetch_price
              + l.metrics.time_to_fetch_options
        /\ l.started_at # -1 /\ l.ended_at # -1
        /\ l.execution_time_seconds = l.ended_at - l.started_at

\* A committed row of a batch that spent time in all three fetches and in
\* the database.
C14Witness ==
    \E l \in logging :
        /\ l.xmin = Committed
        /\ l.metrics.time_to_fetch_trades > 0
        /\ l.metrics.time_to_fetch_price > 0
        /\ l.metrics.time_to_fetch_options > 0
        /\ l.metrics.db_operation_time_seconds > 0
        /\ l.execution_time_seconds > l.metrics.api_call_time_seconds

\* C15: a timed operation that raises adds its elapsed time to its bucket
\* all the same: the price fetch that raises leaves time_to_fetch_price
\* larger by the time it took.
C15Claim ==
    [][\A r \in Runs :
          (pc[r] = "price_fetch" /\ pc'[r] = "except") =>
              metrics'[r].time_to_fetch_price =
                  metrics[r].time_to_fetch_price + Elapsed]_vars

\* C16: once complete(success) has run, the metrics are the ones complete
\* left: the step of the summary changes no field beyond what complete
\* sets, and no later step changes any field.
C16Claim ==
    [][\A r \in Runs :
          /\ (pc[r] = "loop" /\ pc'[r] = "exit") =>
                metrics'[r] = complete(metrics[r],
                                       metrics[r].error_count = 0, clock[r])
          /\ (pc[r] = "exit" /\ metrics[r].status # "running") =>
                metrics'[r] = metrics[r]]_vars

\* The 8 identity fields.
IdentityFields ==
    {"symbol", "transactionDate", "firstName", "lastName", "type", "amount",
     "owner", "assetType"}

SameIdentity(a, b) == \A f \in IdentityFields : a[f] = b[f]

\* C17: two objects that agree on the 8 identity fields have the same
\* record_hash at every reading, whatever their descriptive fields and
\* their priceData/optionsData; so the hash of one object is the same
\* before and after its enrichment is fetched.
C17Theorem ==
    \A r, q \in Runs :
        SameIdentity(data[r], data[q]) =>
            \A i \in 1..Len(hist.digest[r]), j \in 1..Len(hist.digest[q]) :
                hist.digest[r][i] = hist.digest[q][j]

\* Two objects with the same identity fields, another comment and another
\* link, one enriched with a price frame and a saved chain, the other
\* with nothing, each read before and after.
C17Witness ==
    \E r, q \in Runs :
        /\ SameIdentity(data[r], data[q])
        /\ data[r].comment # data[q].comment /\ data[r].link # data[q].link
        /\ Len(hist.digest[r]) = 2 /\ Len(hist.digest[q]) = 2
        /\ has_data(priceData[r]) /\ optionsData[r] = PathValue
        /\ priceData[q] = PyNone /\ optionsData[q] = PyNone
        /\ hist.digest[r][1] = hist.digest[q][2]

\* The committed versions of a table, without their replacement marks.
CommittedRows(table) ==
    {[row EXCEPT !.xmax = NoTx] : row \in {x \in table : x.xmin = Committed}}

\* C18: when the database block of a run ends, the connection is closed;
\* without an exception the run's view of every table becomes the
\* committed content (also for a batch that counted errors and ended
\* 'failed'), with an exception the committed content stays what it was;
\* either way nothing uncommitted of the run is left.
C18Theorem ==
    [][\A r \in Runs :
          (pc[r] = "exit" /\ pc'[r] = "done") =>
              /\ conn'[r] = "closed"
              /\ \A k \in 1..5 :
                   LET before == tables[k]
                       after == tables'[k]
                   IN  /\ \A row \in after : row.xmin # r /\ row.xmax # r
                       /\ IF exc[r]
                          THEN CommittedRows(after) = CommittedRows(before)
                          ELSE CommittedRows(after) =
                                 {[row EXCEPT !.xmin = Committed] :
                                     row \in Visible(before, r)}]_vars

\* One run has committed a batch that ended 'failed' with its trade,
\* error and log rows; the other run was rolled back after it had
\* inserted a trade row.
C18Witness ==
    \E r, q \in Runs :
        /\ pc[r] = "done" /\ conn[r] = "closed" /\ ~exc[r]
        /\ metrics[r].status = "failed"
        /\ \E row \in tickers : row.batch_id = r /\ row.xmin = Committed
        /\ \E row \in errors : row.batch_id = r /\ row.xmin = Committed
        /\ LoggedBy(r) # {}
        /\ pc[q] = "done" /\ conn[q] = "closed" /\ exc[q]
        /\ NewIn(q) # {}
        /\ ~\E row \in tickers : row.batch_id = q

\* C19: a run that has terminated holds no database connection that was
\* opened and not closed.
C19Claim ==
    \A r \in Runs : pc[r] = "done" => conn[r] # "open"

\* C20: a run that has terminated has left exactly one row with its batch
\* id in the batch-metrics table.
C20Claim ==
    \A r \in Runs : pc[r] = "done" => Cardinality(LoggedBy(r)) = 1

\* The counters of a BatchMetrics (everything but the clock readings, the
\* time buckets, status and exit code).
Counters ==
    {"total_records_processed", "records_inserted", "records_skipped",
     "pricing_records_inserted", "options_records_inserted", "error_count",
     "tickers_with_pricing", "tickers_with_options", "duplicated_trades"}

\* Run r takes the step in which insertTrade returns inserted=false.
DuplicateStep(r) ==
    /\ pc[r] = "loop" /\ idx[r] <= Len(listData[r])
    /\ ~is_new'[r] /\ idx'[r] = idx[r] + 1

\* C21: the step in which insertTrade returns inserted=false adds one to
\* duplicated_trades and one to records_skipped, changes no other counter
\* (error_count and total_records_processed among them), performs no
\* fetch and writes no row, and leaves the loop at the next record.
C21Theorem ==
    [][\A r \in Runs :
          /\ (pc[r] = "loop" /\ idx[r] <= Len(listData[r])
                 /\ tickers_is_duplicate(r, listData[r][idx[r]])
                 /\ (pc'[r] # pc[r] \/ idx'[r] # idx[r]))
                => DuplicateStep(r)
          /\ DuplicateStep(r) =>
                /\ metrics'[r].duplicated_trades =
                      metrics[r].duplicated_trades + 1
                /\ metrics'[r].records_skipped =
                      metrics[r].records_skipped + 1
                /\ \A c \in Counters \ {"duplicated_trades", "records_skipped"} :
                      metrics'[r][c] = metrics[r][c]
                /\ hist'.fetches[r] = hist.fetches[r]
                /\ tables' = tables
                /\ pc'[r] = "loop"]_vars

\* A run has inserted a trade, met its second sighting as a duplicate and
\* gone on to the end of its page.
C21Witness ==
    \E r \in Runs :
        /\ pc[r] = "loop" /\ idx[r] > Len(listData[r])
        /\ metrics[r].duplicated_trades = 1 /\ metrics[r].records_skipped = 1
        /\ \E e \in hist.ret : e.run = r /\ ~e.inserted /\ e.k = 2
        /\ \E e \in hist.ret : e.run = r /\ e.inserted /\ e.k = 1

\* C22: a price fetch that fails at the provider goes to the error
\* handler: an error row is logged and counted, and the options fetch of
\* the record is not attempted.
C22Claim ==
    [][\A r \in Runs :
          (pc[r] = "price_fetch" /\ hist'.pfail[r] = hist.pfail[r] + 1) =>
              /\ pc'[r] = "except"
              /\ pc'[r] # "options_fetch"]_vars

\* C23: an options fetch that ends without a chain (network failure,
\* error status, no-data status) goes to the error handler, where it is
\* logged and counted.
C23Claim ==
    [][\A r \in Runs :
          (pc[r] = "options_fetch" /\ optionsData'[r] = PyNone) =>
              pc'[r] = "except"]_vars

\* C24: an options fetch that succeeds with a chain is no error: the
\* record does not reach the error handler.
C24Claim ==
    \A r \in Runs : optionsData[r] = PathValue => pc[r] # "except"

\* Run r takes the step in which the price fetch returns an empty frame.
EmptyPriceStep(r) ==
    /\ pc[r] = "price_fetch" /\ pc'[r] # "price_fetch"
    /\ priceData'[r] = DataFrame(<<>>)

\* C25: a price fetch returning an empty series writes no price row,
\* changes no counter (pricing_records_inserted and error_count among
\* them) and goes on to the options fetch; when the record is recorded,
\* it is recorded without pricing.
C25Theorem ==
    [][\A r \in Runs :
          /\ EmptyPriceStep(r) =>
                /\ pc'[r] = "options_fetch"
                /\ pricing' = pricing /\ errors' = errors
                /\ \A c \in Counters : metrics'[r][c] = metrics[r][c]
          /\ (pc[r] = "options_fetch" /\ priceData[r] = DataFrame(<<>>)
                 /\ metrics'[r].total_records_processed
                       # metrics[r].total_records_processed) =>
                /\ metrics'[r].tickers_with_pricing =
                      metrics[r].tickers_with_pricing
                /\ metrics'[r].error_count = metrics[r].error_count
                /\ \A row \in RowsOf(pricing', record_hash(data[r])) :
                      row.xmin # r]_vars

\* A record whose price fetch returned an empty frame has been recorded
\* as processed, without pricing and without an error.
C25Witness ==
    \E r \in Runs :
        /\ pc[r] = "loop" /\ idx[r] = 2
        /\ priceData[r] = DataFrame(<<>>)
        /\ metrics[r].total_records_processed = 1
        /\ metrics[r].records_inserted = 1
        /\ metrics[r].tickers_with_pricing = 0
        /\ metrics[r].pricing_records_inserted = 0
        /\ metrics[r].error_count = 0

\* The rows of a table that run r has added in its transaction.
AddedBy(table, r) == {row \in table : row.xmin = r}

C27Claim ==
    \A r \in Runs :
        (pc[r] = "loop" /\ idx[r] > Len(listData[r])) =>
            metrics[r].records_inserted = Cardinality(NewIn(r))

\* Run r is in the loop body outside the error handler, or has been
\* through the summary without an exception.
Settled(r) ==
    \/ pc[r] \in {"loop", "tickers_insert", "price_fetch", "pricing_insert",
                  "pricing_executemany", "options_fetch"}
    \/ pc[r] \in {"exit", "done"} /\ metrics[r].status # "running" /\ ~exc[r]

\* C28: the error rows of a batch are as many as its error_count, in the
\* loop and when it has reached the summary, each with the symbol of a
\* record the loop has been through; and the step that logs an error
\* writes the symbol of the record in hand and goes on to the next record.
C28Theorem ==
    /\ [](\A r \in Runs :
            Settled(r) =>
                /\ Cardinality(ErrorsOf(r)) = metrics[r].error_count
                /\ \A e \in ErrorsOf(r) :
                     \E i \in 1..(idx[r] - 1) :
                         i <= Len(listData[r])
                         /\ e.raw_json = listData[r][i].symbol)
    /\ [][\A r \in Runs :
            (pc[r] \in {"except", "except_tx"} /\ pc'[r] # pc[r]
               /\ errors' # errors) =>
                /\ \E e \in errors' \ errors :
                     /\ errors' = errors \cup {e}
                     /\ e.batch_id = r /\ e.raw_json = data[r].symbol
                /\ metrics'[r].error_count = metrics[r].error_count + 1
                /\ pc'[r] = "loop" /\ idx'[r] = idx[r] + 1]_vars

\* A batch has reached the summary and been committed with one error
\* counted and one error row, after processing the record that followed
\* the failing one.
C28Witness ==
    \E r \in Runs :
        /\ pc[r] = "done" /\ ~exc[r] /\ metrics[r].status = "failed"
        /\ metrics[r].error_count = 1
        /\ Cardinality(ErrorsOf(r)) = 1
        /\ \A e \in ErrorsOf(r) :
             e.xmin = Committed /\ e.raw_json = listData[r][1].symbol
        /\ Len(listData[r]) = 2
        /\ \E e \in hist.ret : e.run = r /\ e.k = 2

\* The positions of a run inside the body of the per-record loop.
LoopBody ==
    {"loop", "tickers_insert", "price_fetch", "pricing_insert",
     "pricing_executemany", "options_fetch", "except", "except_tx"}

\* C29: a step inside the loop body either stays in the loop or is the
\* error handler whose logError failed (no error row written); a batch
\* that left the loop that way writes no batch-metrics row, is rolled
\* back and exits with code 1.
C29Theorem ==
    /\ [][\A r \in Runs :
            (pc[r] \in LoopBody /\ idx[r] <= Len(listData[r])
               /\ pc'[r] \notin LoopBody) =>
                /\ pc[r] \in {"except", "except_tx"}
                /\ exc'[r] /\ pc'[r] = "exit"
                /\ errors' = errors]_vars
    /\ [](\A r \in Runs :
            (exc[r] /\ metrics[r].status = "running") =>
                /\ pc[r] \in {"exit", "done"}
                /\ LoggedBy(r) = {}
                /\ \A l \in logging : l.batch_id # r
                /\ pc[r] = "done" =>
                     /\ WrittenBy(r) = {}
                     /\ conn[r] = "closed"
                     /\ exit_code[r] = 1)

\* A batch that had inserted a trade has left the loop through a failing
\* logError and ended rolled back with code 1.
C29Witness ==
    \E r \in Runs :
        /\ pc[r] = "done" /\ exc[r] /\ metrics[r].status = "running"
        /\ NewIn(r) # {} /\ metrics[r].error_count = 1
        /\ idx[r] <= Len(listData[r])
        /\ exit_code[r] = 1

\* The views of the store: the committed content and what each connection
\* sees.
Views(table) ==
    {{row \in table : row.xmin = Committed}}
    \cup {Visible(table, r) : r \in Runs}

\* The row versions of a table an open transaction wrote.
Uncommitted(table) == {row \in table : row.xmin \in Runs}

\* C30: in every store state each price row and each option row has a
\* trade row with its hash (a committed one for a committed row, one its
\* writer sees for an uncommitted row), no view of the store holds two
\* price rows with one (hash, date) or two option rows with one (hash,
\* option_symbol), and a step that adds price or option rows for a hash
\* finds the trade row of that hash already written.
C30Theorem ==
    /\ [](/\ \A row \in pricing \cup options :
               IF row.xmin = Committed
               THEN \E t \in tickers : /\ t.xmin = Committed
                                        /\ t.record_hash = row.record_hash
               ELSE \E t \in Visible(tickers, row.xmin) :
                       t.record_hash = row.record_hash
          /\ \A view \in Views(pricing) : \A a, b \in view :
               (a.record_hash = b.record_hash /\ a.date = b.date) => a = b
          /\ \A view \in Views(options) : \A a, b \in view :
               (a.record_hash = b.record_hash
                  /\ a.option_symbol = b.option_symbol) => a = b)
    /\ [][\A row \in Uncommitted(pricing' \cup options')
                      \ Uncommitted(pricing \cup options) :
            \E t \in Visible(tickers, row.xmin) :
                t.record_hash = row.record_hash]_vars

\* The committed store holds a trade with price rows and option rows,
\* written by two clients one after the other.
C30Witness ==
    /\ \E h \in Hashes :
         /\ \E t \in tickers : t.xmin = Committed /\ t.record_hash = h
         /\ \E p \in pricing : p.xmin = Committed /\ p.record_hash = h
         /\ \E o \in options : o.xmin = Committed /\ o.record_hash = h
    /\ \A r \in Runs : pc[r] = "done" /\ ~exc[r]

\* C31 as first stated: the start is never later than transactionDate, the
\* range is extended exactly when disclosureDate - 60 is later than
\* transactionDate, and the window reaches back to transactionDate - 60
\* only when it was extended.
C31Claim ==
    \A r \in Runs : \A i \in 1..Len(hist.window[r]) :
        LET w == hist.window[r][i]
            d == data[r].disclosureDate[1]
            t == data[r].transactionDate[1]
        IN  /\ w.end = t /\ w.start <= t
            /\ w.extended <=> d - Days60 > t
            /\ w.start = (IF w.extended THEN t - Days60 ELSE d - Days60)
            /\ w.start <= t - Days60 => w.extended

\* C31 amended: as above, and when the disclosure is later than the
\* transaction the window reaches back to transactionDate - 60 only when
\* it was extended; a disclosure on or before the transaction day gives a
\* start on or before transactionDate - 60 without extension.
C31Theorem ==
    \A r \in Runs : \A i \in 1..Len(hist.window[r]) :
        LET w == hist.window[r][i]
            d == data[r].disclosureDate[1]
            t == data[r].transactionDate[1]
        IN  /\ w.end = t /\ w.start <= t
            /\ w.extended <=> d - Days60 > t
            /\ w.start = (IF w.extended THEN t - Days60 ELSE d - Days60)
            /\ (d > t /\ w.start <= t - Days60) => w.extended
            /\ d <= t => (~w.extended /\ w.start <= t - Days60)

\* A record disclosed more than 60 days after its transaction: the window
\* was extended and starts 60 days before the transaction.
C31Witness ==
    \E r \in Runs :
        /\ pc[r] = "done" /\ Len(hist.window[r]) = 1
        /\ data[r].disclosureDate[1] - Days60 > data[r].transactionDate[1]
        /\ hist.window[r][1].extended
        /\ hist.window[r][1].start = data[r].transactionDate[1] - Days60

\* C32: two objects that differ in an identity field, also when one holds
\* None and the other the empty string or the string "null", have
\* different serialized strings and different record hashes at every
\* reading.
C32Theorem ==
    \A r, q \in Runs :
        ~SameIdentity(data[r], data[q]) =>
            /\ HashString(data[r]) # HashString(data[q])
            /\ \A i \in 1..Len(hist.digest[r]), j \in 1..Len(hist.digest[q]) :
                 hist.digest[r][i] # hist.digest[q][j]

\* Two objects that differ only in the owner, None against the empty
\* string, each hashed before and after enrichment.
C32Witness ==
    \E r, q \in Runs :
        /\ data[r].owner = None /\ data[q].owner = Str("")
        /\ \A f \in IdentityFields \ {"owner"} : data[r][f] = data[q][f]
        /\ data[r].symbol # None
        /\ Len(hist.digest[r]) = 2 /\ Len(hist.digest[q]) = 2
        /\ hist.digest[r][2] # hist.digest[q][2]

\* C33: in every batch that reached the summary over a feed of N records,
\* total_records_processed + duplicated_trades + error_count = N,
\* total_records_processed = records_inserted and records_skipped =
\* duplicated_trades; while the loop runs the same sum counts the records
\* already handled.
C33Theorem ==
    \A r \in Runs :
        LET m == metrics[r]
            sum == m.total_records_processed + m.duplicated_trades
                   + m.error_count
        IN  /\ m.status # "running" =>
                 /\ sum = Len(listData[r])
                 /\ m.total_records_processed = m.records_inserted
                 /\ m.records_skipped = m.duplicated_trades
            /\ pc[r] = "loop" => sum = idx[r] - 1

\* One batch over two records reached the summary with one record
\* processed and one counted as an error, and another batch reached it
\* with a duplicate.
C33Witness ==
    \E r, q \in Runs :
        /\ metrics[r].status # "running"
        /\ Len(listData[r]) = 2
        /\ metrics[r].total_records_processed = 1
        /\ metrics[r].error_count = 1
        /\ metrics[q].status # "running"
        /\ metrics[q].duplicated_trades >= 1

\* C34: a batch is all-or-nothing at the store.  No step of a batch other
\* than the end of a database block without exception changes the
\* committed content of any table, and once a batch whose feed fetch
\* succeeded has ended with an exception escaping the database block,
\* nothing it wrote is left: no trade, price, option, error or log row,
\* the error rows logged for earlier records included.
C34Theorem ==
    /\ [][\A r \in Runs :
            ((pc'[r] # pc[r] \/ idx'[r] # idx[r])
               /\ ~(pc[r] = "exit" /\ pc'[r] = "done" /\ ~exc[r])) =>
                \A k \in 1..5 :
                    CommittedRows(tables'[k]) = CommittedRows(tables[k])]_vars
    /\ [](\A r \in Runs :
            (pc[r] = "done" /\ exc[r] /\ ~hist.feedfail[r]) =>
                /\ WrittenBy(r) = {}
                /\ ErrorsOf(r) = {})

\* A batch inserted two trades, logged an error row for the first, failed
\* to log the error of the second and ended rolled back: none of its rows
\* is in the store.
C34Witness ==
    \E r \in Runs :
        /\ pc[r] = "done" /\ exc[r] /\ ~hist.feedfail[r]
        /\ Cardinality(NewIn(r)) = 2
        /\ metrics[r].error_count = 2
        /\ ErrorsOf(r) = {}
        /\ \A row \in tickers : row.batch_id # r

\* C35: when a batch q has committed the trade row of a hash and no price
\* row of that hash, a batch r that runs after q never adds price or
\* option rows for the hash: every sighting in r returns inserted=false,
\* r never enters the enrichment of a record with that hash, and the hash
\* stays without price and option rows.
C35Theorem ==
    \A r \in Runs : \A q \in hist.after[r] : \A h \in Hashes :
        (/\ \E row \in RowsOf(tickers, h) :
                row.batch_id = q /\ row.xmin = Committed
         /\ \A row \in RowsOf(pricing, h) : row.xmin # Committed) =>
            /\ RowsOf(pricing \cup options, h) = {}
            /\ \A e \in hist.ret : (e.run = r /\ e.hash = h) => ~e.inserted
            /\ pc[r] \in LoopBody \ {"loop"} => record_hash(data[r]) # h
            /\ \A row \in RowsOf(tickers, h) : row.xmin # r /\ row.xmax # r

\* Batch q committed a trade without price rows; batch r ran after it,
\* met the hash again, counted it as a duplicate and ended, and the hash
\* is still without price rows.
C35Witness ==
    \E r \in Runs : \E q \in hist.after[r] : \E h \in Hashes :
        /\ \E row \in RowsOf(tickers, h) :
              row.batch_id = q /\ row.xmin = Committed
        /\ RowsOf(pricing, h) = {}
        /\ \E e \in hist.ret : e.run = r /\ e.hash = h /\ ~e.inserted
        /\ pc[r] = "done" /\ ~exc[r]
        /\ metrics[r].duplicated_trades >= 1

====
